---- MODULE Spec2Model ----
(***************************************************************************)
(* The persistence layer of services/database.py: the transactional        *)
(* connection (DatabaseConnection), the retry wrapper                      *)
(* (database_transaction) and the data-access operations, run by several   *)
(* threads against one SQLite file.                                        *)
(*                                                                         *)
(* Strings are sequences of one-character strings, so that str.strip and  *)
(* slicing are computed.  A Python argument is a record that carries its   *)
(* type tag, so that the isinstance checks are computed too.               *)
(*                                                                         *)
(* The store has a committed content (db) and the working content of the   *)
(* one open transaction (work); every transaction is opened with           *)
(* BEGIN IMMEDIATE, which takes the write lock of the file (holder).       *)
(***************************************************************************)
EXTENDS Integers, Sequences, FiniteSets, TLC

\* ---------------------------------------------------------------- bounds
Threads == {1, 2}

\* calls made in one behaviour
MaxCalls == 2

\* ------------------------------------------------------ program constants
max_retries == 3

\* retry_delay, in milliseconds
InitialDelay == 100

\* content[:50] in the details of "Message added"
LogContentLen == 50

\* ------------------------------------------------------------ exceptions
NoExc == "none"
ValueError == "ValueError"
LockedError == "OperationalError: database is locked"
SyntaxError == "OperationalError: near FOR: syntax error"
IOError == "OperationalError: disk I/O error"
NoIdError == "Error: no ID returned"
RuntimeError == "RuntimeError: generator didn't stop after throw()"
\* a keyword argument the function does not have
TypeError == "TypeError: unexpected keyword argument"
\* the raise after the for loop of database_transaction
MaxRetriesError == "OperationalError: Max retries exceeded for database transaction"

IsOperationalError(e) == e \in {LockedError, SyntaxError, IOError, MaxRetriesError}

\* a test that takes every operational error for a lock error
IsLocked_any(e) == TRUE

\* "database is locked" in str(e).lower()
IsLocked(e) == e = LockedError

\* --------------------------------------------------------------- strings
RECURSIVE LStrip(_)
LStrip(s) == IF s # <<>> /\ Head(s) = " " THEN LStrip(Tail(s)) ELSE s

RECURSIVE RStrip(_)
RStrip(s) == IF s # <<>> /\ s[Len(s)] = " " THEN RStrip(SubSeq(s, 1, Len(s) - 1)) ELSE s

Strip(s) == RStrip(LStrip(s))

Slice(s, n) == SubSeq(s, 1, IF Len(s) < n THEN Len(s) ELSE n)

\* ------------------------------------------------------- Python arguments
PyStr(s) == [isstr |-> TRUE, v |-> s]

NoneStr == [isstr |-> FALSE, v |-> <<>>]

PyInt(i) == [isint |-> TRUE, v |-> i]

NoneInt == [isint |-> FALSE, v |-> 0]

NoArg == [isint |-> TRUE, v |-> 0]

NoStrArg == [isstr |-> TRUE, v |-> <<>>]

PositiveInt(x) == x.isint /\ x.v > 0

NonEmptyStr(x) == x.isstr /\ Strip(x.v) # <<>>

IsStr(x) == x.isstr

\* ------------------------------------------------------------- the store
\* CREATE TABLE IF NOT EXISTS
Tables == {"users", "roles", "conversations", "messages", "logs"}

\* CREATE INDEX IF NOT EXISTS
Indexes == {"idx_users_username", "idx_roles_user_id", "idx_conversations_user_id", "idx_conversations_start_time", "idx_messages_conversation_id", "idx_messages_timestamp", "idx_logs_timestamp"}

\* the store after initialize_database, before any row
EmptyDB == [schema |-> Tables \cup Indexes, users |-> <<>>, roles |-> <<>>, conversations |-> <<>>, messages |-> <<>>, logs |-> <<>>]

\* role_id of a conversation that has no role
NULL == 0

Ids(table) == 1..Len(table)

UserIdByName(w, name) == IF \E i \in Ids(w.users) : w.users[i].username = name THEN CHOOSE i \in Ids(w.users) : w.users[i].username = name ELSE 0

UserExists(w, user_id) == user_id \in Ids(w.users)

ConversationExists(w, conversation_id) == conversation_id \in Ids(w.conversations)

RoleExists(w, role_id) == role_id \in Ids(w.roles)

InsertUser(w, name) == [w EXCEPT !.users = Append(@, [username |-> name])]

InsertRole(w, user_id, name, description) == [w EXCEPT !.roles = Append(@, [user_id |-> user_id, name |-> name, description |-> description])]

InsertConversation(w, user_id, now) == [w EXCEPT !.conversations = Append(@, [user_id |-> user_id, start_time |-> now, role_id |-> NULL])]

InsertMessage(w, conversation_id, role, content, model, now) == [w EXCEPT !.messages = Append(@, [conversation_id |-> conversation_id, role |-> role, content |-> content, model |-> model, timestamp |-> now])]

\* the UPDATE as an INSERT OR REPLACE, which writes the row anew
UpdateConversationRole_replaces(w, conversation_id, role_id) == [w EXCEPT !.conversations[conversation_id] = [user_id |-> @.user_id, start_time |-> 0, role_id |-> role_id]]

UpdateConversationRole(w, conversation_id, role_id) == [w EXCEPT !.conversations[conversation_id].role_id = role_id]

\* the details string of a log row, field by field
Details(user_id, conversation_id, message_id, role, model, text) == [user_id |-> user_id, conversation_id |-> conversation_id, message_id |-> message_id, role |-> role, model |-> model, text |-> text]

InsertLog(w, now, action, details) == [w EXCEPT !.logs = Append(@, [timestamp |-> now, action |-> action, details |-> details])]

\* --------------------------------------------------- strings of the program
UserCreated == <<"U", "s", "e", "r", " ", "c", "r", "e", "a", "t", "e", "d">>

ConversationStarted == <<"C", "o", "n", "v", "e", "r", "s", "a", "t", "i", "o", "n", " ", "s", "t", "a", "r", "t", "e", "d">>

MessageAdded == <<"M", "e", "s", "s", "a", "g", "e", " ", "a", "d", "d", "e", "d">>

ConversationWithMessageCreated == <<"C", "o", "n", "v", "e", "r", "s", "a", "t", "i", "o", "n", " ", "w", "i", "t", "h", " ", "m", "e", "s", "s", "a", "g", "e", " ", "c", "r", "e", "a", "t", "e", "d">>

\* ------------------------------------------------- outcome of one statement
\* the statement succeeded and the block goes on
Cont(w, l) == [ctl |-> "next", w |-> w, local |-> l, val |-> <<>>, exc |-> NoExc]

\* the block returns val: the with statement is left normally
Ret(w, l, val) == [ctl |-> "return", w |-> w, local |-> l, val |-> val, exc |-> NoExc]

\* the block raises exc: the with statement is left by the exception
Raise(w, l, e) == [ctl |-> "raise", w |-> w, local |-> l, val |-> <<>>, exc |-> e]

\* lastrowid after an INSERT into an AUTOINCREMENT table from which nothing
\* is ever deleted (sqlite_sequence is rolled back with the transaction)
lastrowid(table) == Len(table)

\* a log_action that writes nothing
log_action_skips(w, clk, action, details) == w

\* log_action(action, details, cursor): the branch of a caller's cursor
log_action(w, clk, action, details) == InsertLog(w, clk, Strip(action), details)

\* cursor.execute("SELECT ... FOR UPDATE"): fu is whether the engine has the
\* clause; SQLite has not, and answers near "FOR": syntax error
ForUpdate(fu, w, l, found, otherwise) == IF ~fu THEN Raise(w, l, SyntaxError) ELSE IF found THEN Cont(w, l) ELSE Raise(w, l, otherwise)

\* ------------------------------------------------------- blocks of the operations
\* k is the statement to execute, a the arguments, l the identifiers held in
\* local variables, w the content the transaction sees, now the value of the
\* local variable now, clk the wall clock, fu the engine's FOR UPDATE.

\* get_user_id that selects and inserts the username as it was given
get_user_id_block_untrimmed(k, a, l, w, now, clk, fu) ==
    LET name == a.username.v
    IN  CASE k = 1 -> IF ~fu THEN Raise(w, l, SyntaxError)
                      ELSE IF UserIdByName(w, name) # 0 THEN Ret(w, l, <<UserIdByName(w, name)>>)
                      ELSE Cont(w, l)
          [] k = 2 -> Cont(InsertUser(w, name), <<lastrowid(w.users) + 1>>)
          [] OTHER -> Ret(log_action(w, clk, UserCreated, Details(l[1], 0, 0, <<>>, <<>>, a.username.v)), l, l)

get_user_id_block(k, a, l, w, now, clk, fu) ==
    LET name == Strip(a.username.v)
    IN  CASE k = 1 -> IF ~fu THEN Raise(w, l, SyntaxError)
                      ELSE IF UserIdByName(w, name) # 0 THEN Ret(w, l, <<UserIdByName(w, name)>>)
                      ELSE Cont(w, l)
          [] k = 2 -> Cont(InsertUser(w, name), <<lastrowid(w.users) + 1>>)
          [] OTHER -> Ret(log_action(w, clk, UserCreated, Details(l[1], 0, 0, <<>>, <<>>, a.username.v)), l, l)

\* create_role without the check that the user exists
create_role_block_unchecked(k, a, l, w, now, clk, fu) ==
    CASE k = 1 -> ForUpdate(fu, w, l, TRUE, ValueError)
      [] OTHER -> Ret(InsertRole(w, a.user_id.v, Strip(a.name.v), a.description.v), <<lastrowid(w.roles) + 1>>, <<lastrowid(w.roles) + 1>>)

create_role_block(k, a, l, w, now, clk, fu) ==
    CASE k = 1 -> ForUpdate(fu, w, l, UserExists(w, a.user_id.v), ValueError)
      [] OTHER -> Ret(InsertRole(w, a.user_id.v, Strip(a.name.v), a.description.v), <<lastrowid(w.roles) + 1>>, <<lastrowid(w.roles) + 1>>)

\* assign_role_to_conversation without the check that the role exists
assign_role_to_conversation_block_any_role(k, a, l, w, now, clk, fu) ==
    CASE k = 1 -> ForUpdate(fu, w, l, ConversationExists(w, a.conversation_id.v), ValueError)
      [] k = 2 -> ForUpdate(fu, w, l, TRUE, ValueError)
      [] OTHER -> IF ConversationExists(w, a.conversation_id.v)
                  THEN Ret(UpdateConversationRole(w, a.conversation_id.v, a.role_id.v), l, <<>>)
                  ELSE Raise(w, l, ValueError)

assign_role_to_conversation_block(k, a, l, w, now, clk, fu) ==
    CASE k = 1 -> ForUpdate(fu, w, l, ConversationExists(w, a.conversation_id.v), ValueError)
      [] k = 2 -> ForUpdate(fu, w, l, RoleExists(w, a.role_id.v), ValueError)
      [] OTHER -> IF ConversationExists(w, a.conversation_id.v)
                  THEN Ret(UpdateConversationRole(w, a.conversation_id.v, a.role_id.v), l, <<>>)
                  ELSE Raise(w, l, ValueError)

create_conversation_block(k, a, l, w, now, clk, fu) ==
    CASE k = 1 -> ForUpdate(fu, w, l, UserExists(w, a.user_id.v), ValueError)
      [] k = 2 -> Cont(InsertConversation(w, a.user_id.v, now), <<lastrowid(w.conversations) + 1>>)
      [] OTHER -> Ret(log_action(w, clk, ConversationStarted, Details(a.user_id.v, l[1], 0, <<>>, <<>>, <<>>)), l, l)

add_message_block(k, a, l, w, now, clk, fu) ==
    CASE k = 1 -> ForUpdate(fu, w, l, ConversationExists(w, a.conversation_id.v), ValueError)
      [] k = 2 -> Cont(InsertMessage(w, a.conversation_id.v, Strip(a.role.v), a.content.v, Strip(a.model.v), now), <<lastrowid(w.messages) + 1>>)
      [] OTHER -> Ret(log_action(w, clk, MessageAdded, Details(0, a.conversation_id.v, 0, a.role.v, a.model.v, Slice(a.content.v, LogContentLen))), l, l)

create_conversation_with_message_block(k, a, l, w, now, clk, fu) ==
    CASE k = 1 -> ForUpdate(fu, w, l, UserExists(w, a.user_id.v), ValueError)
      [] k = 2 -> Cont(InsertConversation(w, a.user_id.v, clk), <<lastrowid(w.conversations) + 1>>)
      \* the message carries the same now as the conversation inserted above
      [] k = 3 -> Cont(InsertMessage(w, l[1], Strip(a.role.v), a.content.v, Strip(a.model.v), w.conversations[l[1]].start_time), <<l[1], lastrowid(w.messages) + 1>>)
      [] OTHER -> Ret(log_action(w, clk, ConversationWithMessageCreated, Details(a.user_id.v, l[1], l[2], <<>>, <<>>, <<>>)), l, l)

\* log_action(action, details) without a cursor: now is read before the transaction
log_action_block(k, a, l, w, now, clk, fu) ==
    Ret(InsertLog(w, now, Strip(a.action.v), Details(0, 0, 0, <<>>, <<>>, a.details.v)), <<lastrowid(w.logs) + 1>>, <<lastrowid(w.logs) + 1>>)

\* a schema set-up that drops what it finds and creates it again
initialize_database_block_recreates(k, a, l, w, now, clk, fu) ==
    CASE k = 1 -> Cont([EmptyDB EXCEPT !.schema = Tables], l)
      [] OTHER -> Ret([w EXCEPT !.schema = @ \cup Indexes], l, <<>>)

\* initialize_database: the loop over tables, then the loop over indexes
initialize_database_block(k, a, l, w, now, clk, fu) ==
    CASE k = 1 -> Cont([w EXCEPT !.schema = @ \cup Tables], l)
      [] OTHER -> Ret([w EXCEPT !.schema = @ \cup Indexes], l, <<>>)

\* ------------------------------------------------------------ read operations
\* the listings of the rows S in an order that respects the pairs of before
\* (<<i, j>>: row i comes before row j); rows that it does not order come in whatever order the engine produces
Listings(S, before) == {f \in [1..Cardinality(S) -> S] : \A i, j \in 1..Cardinality(S) : (i < j) => (f[i] # f[j] /\ <<f[j], f[i]>> \notin before)}

get_roles_by_user_block(k, a, l, w, now, clk, fu) ==
    LET S == {i \in Ids(w.roles) : w.roles[i].user_id = a.user_id.v}
        NoOrder == {}
    IN  {Ret(w, l, [n \in DOMAIN f |-> [role_id |-> f[n], name |-> w.roles[f[n]].name, description |-> w.roles[f[n]].description]]) : f \in Listings(S, NoOrder)}

get_role_by_id_block(k, a, l, w, now, clk, fu) ==
    IF RoleExists(w, a.role_id.v)
    THEN {Ret(w, l, <<[role_id |-> a.role_id.v, name |-> w.roles[a.role_id.v].name, description |-> w.roles[a.role_id.v].description]>>)}
    ELSE {Ret(w, l, <<>>)}

get_conversations_by_user_block(k, a, l, w, now, clk, fu) ==
    LET S == {i \in Ids(w.conversations) : w.conversations[i].user_id = a.user_id.v}
        Later == {<<i, j>> \in S \X S : w.conversations[i].start_time > w.conversations[j].start_time}
    IN  {Ret(w, l, [n \in DOMAIN f |-> [conversation_id |-> f[n], start_time |-> w.conversations[f[n]].start_time]]) : f \in Listings(S, Later)}

\* get_messages_by_conversation without its ORDER BY
get_messages_by_conversation_block_unordered(k, a, l, w, now, clk, fu) ==
    LET S == {i \in Ids(w.messages) : w.messages[i].conversation_id = a.conversation_id.v}
    IN  {Ret(w, l, [n \in DOMAIN f |-> [role |-> w.messages[f[n]].role, content |-> w.messages[f[n]].content, model |-> w.messages[f[n]].model, timestamp |-> w.messages[f[n]].timestamp]]) : f \in Listings(S, {})}

get_messages_by_conversation_block(k, a, l, w, now, clk, fu) ==
    LET S == {i \in Ids(w.messages) : w.messages[i].conversation_id = a.conversation_id.v}
        Earlier == {<<i, j>> \in S \X S : w.messages[i].timestamp < w.messages[j].timestamp}
    IN  {Ret(w, l, [n \in DOMAIN f |-> [role |-> w.messages[f[n]].role, content |-> w.messages[f[n]].content, model |-> w.messages[f[n]].model, timestamp |-> w.messages[f[n]].timestamp]]) : f \in Listings(S, Earlier)}

\* ------------------------------------------------------------ signatures
\* the parameters of each function; a call with another keyword is a TypeError
Parameters(o) ==
    CASE o = "get_user_id" -> {"username"}
      [] o = "create_role" -> {"user_id", "name", "description"}
      [] o = "assign_role_to_conversation" -> {"conversation_id", "role_id"}
      [] o = "create_conversation" -> {"user_id"}
      [] o = "add_message" -> {"conversation_id", "role", "content", "model"}
      [] o = "create_conversation_with_message" -> {"user_id", "role", "content", "model"}
      [] o = "log_action" -> {"action", "details", "cursor"}
      [] o = "get_roles_by_user" -> {"user_id"}
      [] o = "get_role_by_id" -> {"role_id"}
      [] o = "get_conversations_by_user" -> {"user_id"}
      [] o = "get_messages_by_conversation" -> {"conversation_id"}
      [] OTHER -> {}

\* the call binds its arguments to the parameters
Binds(o, a) == DOMAIN a \subseteq Parameters(o)

\* ------------------------------------------------------------ input validation
get_user_id_valid(a) == NonEmptyStr(a.username)

create_role_valid(a) == PositiveInt(a.user_id) /\ NonEmptyStr(a.name) /\ IsStr(a.description)

assign_role_to_conversation_valid(a) == PositiveInt(a.conversation_id) /\ PositiveInt(a.role_id)

create_conversation_valid(a) == PositiveInt(a.user_id)

\* add_message testing role and model without .strip()
add_message_valid_untrimmed(a) == PositiveInt(a.conversation_id) /\ (a.role.isstr /\ a.role.v # <<>>) /\ IsStr(a.content) /\ (a.model.isstr /\ a.model.v # <<>>)

add_message_valid(a) == PositiveInt(a.conversation_id) /\ NonEmptyStr(a.role) /\ IsStr(a.content) /\ NonEmptyStr(a.model)

create_conversation_with_message_valid(a) == PositiveInt(a.user_id) /\ NonEmptyStr(a.role) /\ IsStr(a.content) /\ NonEmptyStr(a.model)

log_action_valid(a) == NonEmptyStr(a.action) /\ IsStr(a.details)

get_roles_by_user_valid(a) == PositiveInt(a.user_id)

get_role_by_id_valid(a) == PositiveInt(a.role_id)

get_conversations_by_user_valid(a) == PositiveInt(a.user_id)

get_messages_by_conversation_valid(a) == PositiveInt(a.conversation_id)

ValidArgs(o, a) ==
    CASE o = "get_user_id" -> get_user_id_valid(a)
      [] o = "create_role" -> create_role_valid(a)
      [] o = "assign_role_to_conversation" -> assign_role_to_conversation_valid(a)
      [] o = "create_conversation" -> create_conversation_valid(a)
      [] o = "add_message" -> add_message_valid(a)
      [] o = "create_conversation_with_message" -> create_conversation_with_message_valid(a)
      [] o = "log_action" -> log_action_valid(a)
      [] o = "get_roles_by_user" -> get_roles_by_user_valid(a)
      [] o = "get_role_by_id" -> get_role_by_id_valid(a)
      [] o = "get_conversations_by_user" -> get_conversations_by_user_valid(a)
      [] o = "initialize_database" -> TRUE
      [] OTHER -> get_messages_by_conversation_valid(a)

\* the operations that read datetime.now() between validation and the transaction
ReadsNowFirst(o) == o \in {"create_conversation", "add_message", "log_action"}

\* isolation_level passed to database_transaction
IsolationLevel(o) == IF o \in {"get_roles_by_user", "get_role_by_id", "get_conversations_by_user", "get_messages_by_conversation"} THEN "READ_UNCOMMITTED" ELSE "SERIALIZABLE"

\* the statements that read datetime.now() inside the block
ReadsNow(o, k) ==
    \/ o \in {"get_user_id", "create_conversation", "add_message"} /\ k = 3
    \/ o = "create_conversation_with_message" /\ k \in {2, 4}

\* datetime.now(): every reading is later than the one before
Now(clk) == clk + 1

\* the statements after which the code tests lastrowid for None
ChecksRowId(o, k) ==
    \/ o \in {"get_user_id", "create_conversation", "add_message"} /\ k \in {2, 3}
    \/ o = "create_conversation_with_message" /\ k \in {2, 3, 4}
    \/ o = "create_role" /\ k = 2
    \/ o = "log_action" /\ k = 1

\* ---------------------------------------------------------------- the inputs
Blank == <<" ">>

Alice == <<"a">>

AliceSpaced == <<" ", "a", " ">>

Bob == <<"b">>

Pirate == <<"P">>

UserTag == <<"u", " ">>

ModelTag == <<"m">>

Ahoy == <<"A", "h", "o", "y", "!">>

\* a content longer than the 50 characters kept in the log
LongContent == [i \in 1..(LogContentLen + 1) |-> IF i > LogContentLen THEN "z" ELSE "x"]

GoodIds == {PyInt(1), PyInt(2)}

BadIds == {NoneInt, PyInt(0)}

BadStrs == {NoneStr, PyStr(Blank)}

Contents == {PyStr(Ahoy), PyStr(LongContent)}

Call1(o, f1, S1) == {[op |-> o, args |-> [x \in {f1} |-> v]] : v \in S1}

MessageCalls(o, idname) ==
    {[op |-> o, args |-> (idname :> i) @@ [role |-> r, content |-> c, model |-> m]] :
        <<i, r, c, m>> \in (GoodIds \X {PyStr(UserTag)} \X Contents \X {PyStr(ModelTag)})
                       \cup (BadIds \X {PyStr(UserTag)} \X {PyStr(Ahoy)} \X {PyStr(ModelTag)})
                       \cup ({PyInt(1)} \X BadStrs \X {PyStr(Ahoy)} \X {PyStr(ModelTag)})
                       \cup ({PyInt(1)} \X {PyStr(UserTag)} \X {NoneStr} \X {PyStr(ModelTag)})
                       \cup ({PyInt(1)} \X {PyStr(UserTag)} \X {PyStr(Ahoy)} \X BadStrs)}

Calls ==
    Call1("get_user_id", "username", {PyStr(Alice), PyStr(AliceSpaced), PyStr(Bob)} \cup BadStrs)
    \cup {[op |-> "create_role", args |-> [user_id |-> i, name |-> n, description |-> d]] :
            <<i, n, d>> \in ((GoodIds \cup BadIds) \X {PyStr(Pirate)} \X {PyStr(Ahoy)})
                            \cup ({PyInt(1)} \X BadStrs \X {PyStr(Ahoy)})
                            \cup ({PyInt(1)} \X {PyStr(Pirate)} \X {NoneStr})}
    \cup {[op |-> "assign_role_to_conversation", args |-> [conversation_id |-> c, role_id |-> r]] :
            <<c, r>> \in (GoodIds \X GoodIds) \cup (BadIds \X {PyInt(1)}) \cup ({PyInt(1)} \X BadIds)}
    \cup Call1("create_conversation", "user_id", GoodIds \cup BadIds)
    \cup MessageCalls("add_message", "conversation_id")
    \cup MessageCalls("create_conversation_with_message", "user_id")
    \cup {[op |-> "log_action", args |-> [action |-> x, details |-> d]] :
            <<x, d>> \in (({PyStr(Pirate)} \cup BadStrs) \X {PyStr(Ahoy)}) \cup ({PyStr(Pirate)} \X {NoneStr})}
    \cup Call1("get_roles_by_user", "user_id", GoodIds \cup BadIds)
    \cup Call1("get_role_by_id", "role_id", GoodIds \cup BadIds)
    \cup Call1("get_conversations_by_user", "user_id", GoodIds \cup BadIds)
    \cup Call1("get_messages_by_conversation", "conversation_id", GoodIds \cup BadIds)

\* the cursor of a connection of the caller's own
Cursor == [iscursor |-> TRUE]

\* no argument at all
NoArguments == [x \in {} |-> NoArg]

\* the calls of the presentation layer that pass cursor=cursor, and its
\* initialize_database()
AppCalls ==
    {[op |-> "create_conversation", args |-> [user_id |-> PyInt(1), cursor |-> Cursor]],
     [op |-> "add_message", args |-> [conversation_id |-> PyInt(1), role |-> PyStr(UserTag), content |-> PyStr(Ahoy), model |-> PyStr(ModelTag), cursor |-> Cursor]],
     [op |-> "initialize_database", args |-> NoArguments]}

\* the calls made when two sessions run at once
SharedCalls ==
    Call1("get_user_id", "username", {PyStr(Alice), PyStr(Bob)})
    \cup {[op |-> o, args |-> (idname :> PyInt(1)) @@ [role |-> PyStr(UserTag), content |-> PyStr(Ahoy), model |-> PyStr(ModelTag)]] :
            <<o, idname>> \in {<<"add_message", "conversation_id">>, <<"create_conversation_with_message", "user_id">>}}
    \cup Call1("get_messages_by_conversation", "conversation_id", {PyInt(1)})
    \cup {[op |-> "assign_role_to_conversation", args |-> [conversation_id |-> PyInt(1), role_id |-> PyInt(1)]]}

\* n sessions run: one makes any call, two make the shared calls
CallsOf(n, t) == IF t > n THEN {} ELSE IF n = 1 THEN Calls \cup AppCalls ELSE SharedCalls

\* the block of op o at statement k, whatever the operation
Block(o, k, a, l, w, n, clk, fu) ==
    CASE o = "get_user_id" -> get_user_id_block(k, a, l, w, n, clk, fu)
      [] o = "create_role" -> create_role_block(k, a, l, w, n, clk, fu)
      [] o = "assign_role_to_conversation" -> assign_role_to_conversation_block(k, a, l, w, n, clk, fu)
      [] o = "create_conversation" -> create_conversation_block(k, a, l, w, n, clk, fu)
      [] o = "add_message" -> add_message_block(k, a, l, w, n, clk, fu)
      [] o = "create_conversation_with_message" -> create_conversation_with_message_block(k, a, l, w, n, clk, fu)
      [] o = "initialize_database" -> initialize_database_block(k, a, l, w, n, clk, fu)
      [] OTHER -> log_action_block(k, a, l, w, n, clk, fu)

\* the outcome of call c, the n-th call made, run alone on content w from
\* statement k on, with no failure, on an engine whose FOR UPDATE is fu; the
\* call reads the clock before its transaction and once more inside it
RECURSIVE RunBlock(_, _, _, _, _, _)
RunBlock(c, k, l, w, n, fu) ==
    LET o == Block(c.op, k, c.args, l, w, 2 * n - 1, 2 * n, fu)
    IN  IF o.ctl = "next" THEN RunBlock(c, k + 1, o.local, o.w, n, fu) ELSE o

\* the committed content after it: the block's content when it returned
RunCall(c, d, n, fu) == IF RunBlock(c, 1, <<>>, d, n, fu).ctl = "return" THEN RunBlock(c, 1, <<>>, d, n, fu).w ELSE d

EarlierCalls == <<
    [op |-> "get_user_id", args |-> [username |-> PyStr(Alice)]],
    [op |-> "create_role", args |-> [user_id |-> PyInt(1), name |-> PyStr(Pirate), description |-> PyStr(Ahoy)]],
    [op |-> "create_conversation", args |-> [user_id |-> PyInt(1)]],
    [op |-> "get_user_id", args |-> [username |-> PyStr(Bob)]],
    [op |-> "create_role", args |-> [user_id |-> PyInt(2), name |-> PyStr(Pirate), description |-> PyStr(Ahoy)]],
    [op |-> "add_message", args |-> [conversation_id |-> PyInt(1), role |-> PyStr(UserTag), content |-> PyStr(Ahoy), model |-> PyStr(ModelTag)]],
    [op |-> "add_message", args |-> [conversation_id |-> PyInt(1), role |-> PyStr(Pirate), content |-> PyStr(LongContent), model |-> PyStr(ModelTag)]] >>

RECURSIVE After(_)
After(n) == IF n = 0 THEN EmptyDB ELSE RunCall(EarlierCalls[n], After(n - 1), n, TRUE)

\* the clock when the session starts: later than every earlier reading
StartClock == 2 * Len(EarlierCalls)

\* what one session starts on, and what two sessions start on
Histories(n) == IF n = 1 THEN {After(0), After(3), After(5), After(7)} ELSE {After(3)}

\* ------------------------------------------------------------------ the state
VARIABLES
    db,           \* the committed content of chat_history.db
    work,         \* the content seen by the open transaction (db when none is open)
    holder,       \* the thread whose connection holds the write lock, or 0
    for_update,   \* whether the engine accepts SELECT ... FOR UPDATE
    sessions,     \* how many sessions use the store
    clock,        \* the last value datetime.now() returned
    calls,        \* operations called so far
    pc,           \* where each thread is in database_transaction
    op,           \* the operation each thread runs
    args,         \* its arguments
    now,          \* its local variable now
    stmt,         \* the next statement of its with block
    local,        \* the identifiers its block holds (lastrowid)
    attempt,      \* the loop variable of database_transaction
    retry_delay,  \* the next backoff delay, in milliseconds
    slept,        \* the delays time.sleep has been called with during the call
    locked,       \* the threading.Lock objects that are held
    yielded,      \* whether the generator has yielded its cursor
    conn,         \* the connection of its DatabaseConnection: none, open, closed
    result,       \* the value returned to the caller
    exc           \* the exception in flight, or raised to the caller

vars == <<db, work, holder, for_update, sessions, clock, calls, pc, op, args, now, stmt, local, attempt, retry_delay, slept, locked, yielded, conn, result, exc>>

store == <<db, work, holder>>

engine == <<for_update, sessions>>

frame == <<op, args, now>>

NoOp == "none"

NoArgs == [none |-> NoArg]

\* chat_history.db outlives the process: a session starts on the content that
\* earlier calls have committed
Init ==
    /\ for_update \in BOOLEAN
    /\ sessions \in Threads
    /\ db \in (IF for_update THEN Histories(sessions) ELSE {EmptyDB})
    /\ work = db
    /\ holder = 0
    /\ clock = StartClock
    /\ calls = 0
    /\ pc = [t \in Threads |-> "idle"]
    /\ op = [t \in Threads |-> NoOp]
    /\ args = [t \in Threads |-> NoArgs]
    /\ now = [t \in Threads |-> 0]
    /\ stmt = [t \in Threads |-> 0]
    /\ local = [t \in Threads |-> <<>>]
    /\ attempt = [t \in Threads |-> 0]
    /\ retry_delay = [t \in Threads |-> InitialDelay]
    /\ slept = [t \in Threads |-> <<>>]
    /\ locked = {}
    /\ yielded = [t \in Threads |-> FALSE]
    /\ conn = [t \in Threads |-> "none"]
    /\ result = [t \in Threads |-> <<>>]
    /\ exc = [t \in Threads |-> NoExc]

\* an __exit__ that commits whatever the block did
ExitCommits_always(e) == TRUE

\* a ROLLBACK that keeps what the transaction wrote
OnRollback_commits(d, w) == w

\* a ROLLBACK that the logs rows escape, as rows written through a connection of their own
OnRollback_keeps_logs(d, w) == [d EXCEPT !.logs = w.logs]

\* statements in autocommit mode: each is committed as it is executed
InTransaction_autocommit(d, w) == w

\* ------------------------------------------------- DatabaseConnection.__exit__
\* if exc_type is None: COMMIT, else: ROLLBACK
ExitCommits(e) == e = NoExc

\* the committed content after COMMIT succeeds on a transaction whose content is w
OnCommit(d, w) == w

\* the committed content after ROLLBACK (or, if ROLLBACK fails twice, after
\* close() discards the open transaction) on a transaction whose content is w
OnRollback(d, w) == d

\* the committed content while a statement of an explicit transaction (BEGIN
\* IMMEDIATE, isolation_level=None) has changed the transaction's content to w
InTransaction(d, w) == d

\* ------------------------------------------------------------------ the steps
\* A caller calls an operation: the arguments are validated, and the
\* operations that stamp their row read the clock, before any connection.
Call(t) ==
    /\ pc[t] = "idle"
    /\ calls < MaxCalls
    /\ calls' = calls + 1
    /\ \E c \in CallsOf(sessions, t) :
        /\ op' = [op EXCEPT ![t] = c.op]
        /\ args' = [args EXCEPT ![t] = c.args]
        /\ CASE ~Binds(c.op, c.args) ->
                /\ pc' = [pc EXCEPT ![t] = "done"]
                /\ exc' = [exc EXCEPT ![t] = TypeError]
                /\ UNCHANGED <<now, clock>>
             [] Binds(c.op, c.args) /\ ~ValidArgs(c.op, c.args) ->
                /\ pc' = [pc EXCEPT ![t] = "done"]
                /\ exc' = [exc EXCEPT ![t] = ValueError]
                /\ UNCHANGED <<now, clock>>
             [] OTHER ->
                /\ pc' = [pc EXCEPT ![t] = "enter"]
                /\ now' = [now EXCEPT ![t] = IF ReadsNowFirst(c.op) THEN Now(clock) ELSE 0]
                /\ clock' = IF ReadsNowFirst(c.op) THEN Now(clock) ELSE clock
                /\ exc' = exc
    /\ UNCHANGED <<store, engine, stmt, local, attempt, retry_delay, slept, locked, yielded, conn, result>>

\* self._lock of the DatabaseConnection that the call of thread t constructs:
\* __init__ makes a new threading.Lock() for every instance
LockOf(t) == t

\* a BEGIN that takes no lock
BeginImmediate_deferred(h) == TRUE

\* BEGIN IMMEDIATE TRANSACTION succeeds when no connection holds the write lock h
BeginImmediate(h) == h = 0

\* __enter__, up to BEGIN: with self._lock, connect, the PRAGMAs
Connect(t) ==
    /\ pc[t] = "enter"
    /\ LockOf(t) \notin locked
    /\ locked' = locked \cup {LockOf(t)}
    /\ conn' = [conn EXCEPT ![t] = "open"]
    /\ pc' = [pc EXCEPT ![t] = "begin"]
    /\ UNCHANGED <<store, engine, clock, calls, frame, stmt, local, attempt, retry_delay, slept, yielded, result, exc>>

\* __enter__: BEGIN IMMEDIATE gets the write lock, self._lock is released.
\* When the generator has already yielded once, its second yield makes
\* contextlib raise RuntimeError to the caller and the transaction just begun
\* stays open.
Enter(t) ==
    /\ pc[t] = "begin"
    /\ BeginImmediate(holder)
    /\ holder' = t
    /\ work' = db
    /\ db' = db
    /\ locked' = locked \ {LockOf(t)}
    /\ IF yielded[t]
       THEN /\ pc' = [pc EXCEPT ![t] = "done"]
            /\ exc' = [exc EXCEPT ![t] = RuntimeError]
            /\ stmt' = stmt
       ELSE /\ pc' = [pc EXCEPT ![t] = "block"]
            /\ stmt' = [stmt EXCEPT ![t] = 1]
            /\ exc' = exc
    /\ yielded' = [yielded EXCEPT ![t] = TRUE]
    /\ UNCHANGED <<engine, clock, calls, frame, local, attempt, retry_delay, slept, conn, result>>

\* __enter__: the write lock is held by another connection for the whole
\* timeout; the connection is closed, self._lock released and the error raised
\* BEGIN without IMMEDIATE: a busy store does not stop the transaction from starting
EnterLocked_deferred(t) ==
    /\ pc[t] = "begin"
    /\ ~BeginImmediate(holder)
    /\ ~yielded[t]
    /\ locked' = locked \ {LockOf(t)}
    /\ pc' = [pc EXCEPT ![t] = "block"]
    /\ stmt' = [stmt EXCEPT ![t] = 1]
    /\ yielded' = [yielded EXCEPT ![t] = TRUE]
    /\ UNCHANGED <<store, engine, clock, calls, frame, local, attempt, retry_delay, slept, conn, result, exc>>

EnterLocked(t) ==
    /\ pc[t] = "begin"
    /\ ~BeginImmediate(holder)
    /\ locked' = locked \ {LockOf(t)}
    /\ pc' = [pc EXCEPT ![t] = "except"]
    /\ exc' = [exc EXCEPT ![t] = LockedError]
    /\ conn' = [conn EXCEPT ![t] = "closed"]
    /\ UNCHANGED <<store, engine, clock, calls, frame, stmt, local, attempt, retry_delay, slept, yielded, result>>

\* one statement of the with block of thread t, with outcome o
Execute(t, o) ==
    /\ work' = o.w
    /\ db' = InTransaction(db, o.w)
    /\ CASE o.ctl = "next" -> /\ pc' = pc
                              /\ stmt' = [stmt EXCEPT ![t] = @ + 1]
                              /\ local' = [local EXCEPT ![t] = o.local]
                              /\ UNCHANGED <<result, exc>>
         [] o.ctl = "return" -> /\ pc' = [pc EXCEPT ![t] = "commit"]
                                /\ result' = [result EXCEPT ![t] = o.val]
                                /\ stmt' = [stmt EXCEPT ![t] = 0]
                                /\ local' = [local EXCEPT ![t] = <<>>]
                                /\ exc' = exc
         [] OTHER -> /\ pc' = [pc EXCEPT ![t] = "rollback"]
                     /\ exc' = [exc EXCEPT ![t] = o.exc]
                     /\ stmt' = [stmt EXCEPT ![t] = 0]
                     /\ local' = [local EXCEPT ![t] = <<>>]
                     /\ result' = result
    /\ clock' = IF ReadsNow(op[t], stmt[t]) THEN Now(clock) ELSE clock
    /\ UNCHANGED <<holder, engine, calls, frame, attempt, retry_delay, slept, locked, yielded, conn>>

InBlock(t, o) == pc[t] = "block" /\ op[t] = o

GetUserId(t) == InBlock(t, "get_user_id") /\ Execute(t, get_user_id_block(stmt[t], args[t], local[t], work, now[t], Now(clock), for_update))

CreateRole(t) == InBlock(t, "create_role") /\ Execute(t, create_role_block(stmt[t], args[t], local[t], work, now[t], Now(clock), for_update))

AssignRoleToConversation(t) == InBlock(t, "assign_role_to_conversation") /\ Execute(t, assign_role_to_conversation_block(stmt[t], args[t], local[t], work, now[t], Now(clock), for_update))

CreateConversation(t) == InBlock(t, "create_conversation") /\ Execute(t, create_conversation_block(stmt[t], args[t], local[t], work, now[t], Now(clock), for_update))

AddMessage(t) == InBlock(t, "add_message") /\ Execute(t, add_message_block(stmt[t], args[t], local[t], work, now[t], Now(clock), for_update))

CreateConversationWithMessage(t) == InBlock(t, "create_conversation_with_message") /\ Execute(t, create_conversation_with_message_block(stmt[t], args[t], local[t], work, now[t], Now(clock), for_update))

LogAction(t) == InBlock(t, "log_action") /\ Execute(t, log_action_block(stmt[t], args[t], local[t], work, now[t], Now(clock), for_update))

GetRolesByUser(t) == InBlock(t, "get_roles_by_user") /\ \E o \in get_roles_by_user_block(stmt[t], args[t], local[t], work, now[t], Now(clock), for_update) : Execute(t, o)

GetRoleById(t) == InBlock(t, "get_role_by_id") /\ \E o \in get_role_by_id_block(stmt[t], args[t], local[t], work, now[t], Now(clock), for_update) : Execute(t, o)

GetConversationsByUser(t) == InBlock(t, "get_conversations_by_user") /\ \E o \in get_conversations_by_user_block(stmt[t], args[t], local[t], work, now[t], Now(clock), for_update) : Execute(t, o)

InitializeDatabase(t) == InBlock(t, "initialize_database") /\ Execute(t, initialize_database_block(stmt[t], args[t], local[t], work, now[t], Now(clock), for_update))

GetMessagesByConversation(t) == InBlock(t, "get_messages_by_conversation") /\ \E o \in get_messages_by_conversation_block(stmt[t], args[t], local[t], work, now[t], Now(clock), for_update) : Execute(t, o)

\* a statement fails in the engine (the disk, or the lock) before it has any effect
StatementFails(t) ==
    /\ pc[t] = "block"
    /\ \E e \in {IOError, LockedError} : exc' = [exc EXCEPT ![t] = e]
    /\ pc' = [pc EXCEPT ![t] = "rollback"]
    /\ stmt' = [stmt EXCEPT ![t] = 0]
    /\ local' = [local EXCEPT ![t] = <<>>]
    /\ UNCHANGED <<store, engine, clock, calls, frame, attempt, retry_delay, slept, locked, yielded, conn, result>>

\* an INSERT is executed and leaves no lastrowid: the code raises sqlite3.Error
NoIdReturned(t) ==
    /\ pc[t] = "block"
    /\ ChecksRowId(op[t], stmt[t])
    /\ work' = Block(op[t], stmt[t], args[t], local[t], work, now[t], Now(clock), for_update).w
    /\ db' = InTransaction(db, work')
    /\ exc' = [exc EXCEPT ![t] = NoIdError]
    /\ pc' = [pc EXCEPT ![t] = "rollback"]
    /\ stmt' = [stmt EXCEPT ![t] = 0]
    /\ local' = [local EXCEPT ![t] = <<>>]
    /\ clock' = IF ReadsNow(op[t], stmt[t]) THEN Now(clock) ELSE clock
    /\ UNCHANGED <<holder, engine, calls, frame, attempt, retry_delay, slept, locked, yielded, conn, result>>

\* __exit__ with no exception: COMMIT, close; the generator returns
Commit(t) ==
    /\ pc[t] = "commit"
    /\ db' = IF ExitCommits(exc[t]) THEN OnCommit(db, work) ELSE OnRollback(db, work)
    /\ work' = db'
    /\ holder' = 0
    /\ conn' = [conn EXCEPT ![t] = "closed"]
    /\ pc' = [pc EXCEPT ![t] = "done"]
    /\ UNCHANGED <<engine, clock, calls, frame, stmt, local, attempt, retry_delay, slept, locked, yielded, result, exc>>

\* __exit__ with no exception: COMMIT raises sqlite3.Error, which __exit__
\* catches; ROLLBACK, close; the generator returns all the same
CommitFails(t) ==
    /\ pc[t] = "commit"
    /\ db' = OnRollback(db, work)
    /\ work' = db'
    /\ holder' = 0
    /\ conn' = [conn EXCEPT ![t] = "closed"]
    /\ pc' = [pc EXCEPT ![t] = "done"]
    /\ UNCHANGED <<engine, clock, calls, frame, stmt, local, attempt, retry_delay, slept, locked, yielded, result, exc>>

\* __exit__ with the block's exception: ROLLBACK, close; the exception goes on
\* to the except clauses of database_transaction
Rollback(t) ==
    /\ pc[t] = "rollback"
    /\ db' = IF ExitCommits(exc[t]) THEN OnCommit(db, work) ELSE OnRollback(db, work)
    /\ work' = db'
    /\ holder' = 0
    /\ conn' = [conn EXCEPT ![t] = "closed"]
    /\ pc' = [pc EXCEPT ![t] = "except"]
    /\ UNCHANGED <<engine, clock, calls, frame, stmt, local, attempt, retry_delay, slept, locked, yielded, result, exc>>

\* a retry test that allows one attempt more
Retries_one_more(e, n) == IsOperationalError(e) /\ IsLocked(e) /\ n < max_retries

\* a backoff that does not grow
Backoff_constant(d) == d

\* retry_delay *= 2
Backoff(d) == d * 2

\* except sqlite3.OperationalError, locked, attempts left: sleep, double, continue
Retries(e, n) == IsOperationalError(e) /\ IsLocked(e) /\ n < max_retries - 1

Retry(t) ==
    /\ pc[t] = "except"
    /\ Retries(exc[t], attempt[t])
    /\ attempt' = [attempt EXCEPT ![t] = @ + 1]
    /\ slept' = [slept EXCEPT ![t] = Append(@, retry_delay[t])]
    /\ retry_delay' = [retry_delay EXCEPT ![t] = Backoff(@)]
    /\ exc' = [exc EXCEPT ![t] = NoExc]
    /\ conn' = [conn EXCEPT ![t] = "none"]
    /\ pc' = [pc EXCEPT ![t] = "enter"]
    /\ UNCHANGED <<store, engine, clock, calls, frame, stmt, local, locked, yielded, result>>

\* any other exception, or the last attempt: raise e, up to the caller
Propagate(t) ==
    /\ pc[t] = "except"
    /\ ~Retries(exc[t], attempt[t])
    /\ pc' = [pc EXCEPT ![t] = "done"]
    /\ UNCHANGED <<store, engine, clock, calls, frame, stmt, local, attempt, retry_delay, slept, locked, yielded, conn, result, exc>>

\* the caller takes the result or handles the exception; a generator left
\* suspended inside its with statement is finalised then: ROLLBACK, close
Return(t) ==
    /\ pc[t] = "done"
    /\ IF holder = t
       THEN /\ db' = OnRollback(db, work)
            /\ work' = db'
            /\ holder' = 0
       ELSE UNCHANGED store
    /\ pc' = [pc EXCEPT ![t] = "idle"]
    /\ op' = [op EXCEPT ![t] = NoOp]
    /\ args' = [args EXCEPT ![t] = NoArgs]
    /\ now' = [now EXCEPT ![t] = 0]
    /\ stmt' = [stmt EXCEPT ![t] = 0]
    /\ local' = [local EXCEPT ![t] = <<>>]
    /\ attempt' = [attempt EXCEPT ![t] = 0]
    /\ retry_delay' = [retry_delay EXCEPT ![t] = InitialDelay]
    /\ slept' = [slept EXCEPT ![t] = <<>>]
    /\ yielded' = [yielded EXCEPT ![t] = FALSE]
    /\ conn' = [conn EXCEPT ![t] = "none"]
    /\ result' = [result EXCEPT ![t] = <<>>]
    /\ exc' = [exc EXCEPT ![t] = NoExc]
    /\ UNCHANGED <<engine, clock, calls, locked>>

Next ==
    \/ \E t \in Threads :
        \/ Call(t)
        \/ Connect(t)
        \/ Enter(t)
        \/ EnterLocked(t)
        \/ GetUserId(t)
        \/ CreateRole(t)
        \/ AssignRoleToConversation(t)
        \/ CreateConversation(t)
        \/ AddMessage(t)
        \/ CreateConversationWithMessage(t)
        \/ LogAction(t)
        \/ InitializeDatabase(t)
        \/ GetRolesByUser(t)
        \/ GetRoleById(t)
        \/ GetConversationsByUser(t)
        \/ GetMessagesByConversation(t)
        \/ StatementFails(t)
        \/ NoIdReturned(t)
        \/ Commit(t)
        \/ CommitFails(t)
        \/ Rollback(t)
        \/ Retry(t)
        \/ Propagate(t)
        \/ Return(t)

Spec == Init /\ [][Next]_vars

\* ============================================================== the claims
\* failures that come from the disk, the lock or the injected missing lastrowid
EngineFailures == {LockedError, IOError, NoIdError, RuntimeError}

\* thread t has finished a call of operation o, which the caller has not yet taken
Finished(t, o) == pc[t] = "done" /\ op[t] = o

UsersNamed(d, name) == {i \in Ids(d.users) : d.users[i].username = name}

\* C1: a get_user_id call with a usable username, which no engine failure hits,
\* returns an identifier, and that identifier is the one users row that
\* carries the username: so two calls return the same identifier and leave
\* one row.
C1_GetUserIdReturnsTheOneRow ==
    \A t \in Threads :
        (Finished(t, "get_user_id") /\ NonEmptyStr(args[t].username) /\ exc[t] \notin EngineFailures)
            => /\ exc[t] = NoExc
               /\ UsersNamed(db, Strip(args[t].username.v)) = {result[t][1]}

\* C2: no username is carried by two users rows, and the callers of
\* get_user_id that pass the same username and that no engine failure hits
\* all receive an identifier, the same one.
C2_ConcurrentCallersSameIdentifier ==
    /\ \A i, j \in Ids(db.users) : db.users[i].username = db.users[j].username => i = j
    /\ \A t, u \in Threads :
        (/\ Finished(t, "get_user_id") /\ NonEmptyStr(args[t].username) /\ exc[t] \notin EngineFailures
         /\ Finished(u, "get_user_id") /\ NonEmptyStr(args[u].username) /\ exc[u] \notin EngineFailures
         /\ Strip(args[t].username.v) = Strip(args[u].username.v))
            => /\ exc[t] = NoExc
               /\ exc[u] = NoExc
               /\ result[t] = result[u]

\* a step of thread t itself
OwnStep(t) == pc'[t] # pc[t] \/ stmt'[t] # stmt[t]

\* the block of thread t has raised: the call is past its with block, with no return value
BlockFailed(t) == pc[t] \in {"rollback", "except"} \/ (pc[t] \in {"enter", "begin"} /\ yielded[t])

ConversationsOf(d, user_id) == {i \in Ids(d.conversations) : d.conversations[i].user_id = user_id}

\* C3: a create_conversation_with_message call in which a statement failed
\* ends by raising, and no step of the call other than the COMMIT of a
\* completed block changes the conversations of its user.
C3_FailedCombinedCreateLeavesNoConversation ==
    [][\A t \in Threads :
        op[t] = "create_conversation_with_message" =>
            /\ (BlockFailed(t) /\ pc'[t] = "done") => exc'[t] # NoExc
            /\ (OwnStep(t) /\ pc[t] # "commit") =>
                    ConversationsOf(db', args[t].user_id.v) = ConversationsOf(db, args[t].user_id.v)]_vars

\* a failed insert of the first message came after the conversation was inserted
C3_Witness ==
    \E t \in Threads :
        /\ Finished(t, "create_conversation_with_message")
        /\ exc[t] = NoIdError
        /\ UserExists(db, args[t].user_id.v)

LogsOf(d, action) == {i \in Ids(d.logs) : d.logs[i].action = action}

\* C4: in the content other transactions see, a conversation made by
\* create_conversation_with_message is there with its first message and its
\* log row, or none of the three is: every such log row names a conversation
\* and a message of that conversation, every conversation has the log row of
\* its creation and every message the log row of its insertion.
C4_CombinedCreateNeverSeenPartly ==
    /\ \A i \in LogsOf(db, ConversationWithMessageCreated) :
        /\ ConversationExists(db, db.logs[i].details.conversation_id)
        /\ db.logs[i].details.message_id \in Ids(db.messages)
        /\ db.messages[db.logs[i].details.message_id].conversation_id = db.logs[i].details.conversation_id
    /\ \A c \in Ids(db.conversations) :
        \E i \in LogsOf(db, ConversationStarted) \cup LogsOf(db, ConversationWithMessageCreated) :
            db.logs[i].details.conversation_id = c
    /\ \A m \in Ids(db.messages) :
        \/ \E i \in LogsOf(db, ConversationWithMessageCreated) : db.logs[i].details.message_id = m
        \/ \E i \in LogsOf(db, MessageAdded) : db.logs[i].details.conversation_id = db.messages[m].conversation_id

\* a second session is acquiring its transaction while the combined operation
\* has inserted its conversation and not yet its message
C4_Witness ==
    \E t, u \in Threads :
        /\ InBlock(t, "create_conversation_with_message")
        /\ stmt[t] = 3
        /\ Len(work.conversations) = Len(db.conversations) + 1
        /\ pc[u] \in {"enter", "begin", "except"}

\* the step is the COMMIT that ends a call of thread t and changes the store
Commits(t) == pc[t] = "commit" /\ pc'[t] = "done" /\ db' # db

C6_RolledBackAttemptChangesNothing ==
    [][/\ (\A t \in Threads : ~(pc[t] = "commit" /\ pc'[t] = "done")) => db' = db
       /\ \A t \in Threads : (pc[t] = "rollback" /\ pc'[t] # "rollback") => (db' = db /\ work' = db)]_vars

\* an add_message whose insert had been executed was rolled back
C6_Witness ==
    \E t \in Threads :
        /\ op[t] = "add_message"
        /\ pc[t] = "except"
        /\ exc[t] = NoIdError
        /\ ConversationExists(db, args[t].conversation_id.v)
        /\ work = db

\* C7: every logs row of a data operation has its row committed with it: the
\* user of 'User created', the conversation of 'Conversation started', a
\* message of 'Message added', the conversation and message of
\* 'Conversation with message created'.
C7_LogRowWitnessesItsMutation ==
    \A i \in Ids(db.logs) :
        LET a == db.logs[i].action
            d == db.logs[i].details
        IN  /\ a = UserCreated =>
                /\ UserExists(db, d.user_id)
                /\ db.users[d.user_id].username = Strip(d.text)
            /\ a = ConversationStarted =>
                /\ ConversationExists(db, d.conversation_id)
                /\ db.conversations[d.conversation_id].user_id = d.user_id
            /\ a = MessageAdded =>
                \E m \in Ids(db.messages) :
                    /\ db.messages[m].conversation_id = d.conversation_id
                    /\ db.messages[m].role = Strip(d.role)
                    /\ db.messages[m].model = Strip(d.model)
                    /\ Slice(db.messages[m].content, LogContentLen) = d.text
            /\ a = ConversationWithMessageCreated =>
                /\ ConversationExists(db, d.conversation_id)
                /\ db.conversations[d.conversation_id].user_id = d.user_id
                /\ d.message_id \in Ids(db.messages)
                /\ db.messages[d.message_id].conversation_id = d.conversation_id

\* the log row of a message longer than the log keeps, next to a rolled-back attempt
C7_Witness ==
    /\ \E i \in LogsOf(db, MessageAdded) : \E m \in Ids(db.messages) :
        /\ db.messages[m].content # db.logs[i].details.text
        /\ Slice(db.messages[m].content, LogContentLen) = db.logs[i].details.text
    /\ \E t \in Threads : pc[t] = "done" /\ exc[t] = IOError

\* C8: in the committed content every roles.user_id and conversations.user_id
\* is a users row, every conversations.role_id that is set is a roles row and
\* every messages.conversation_id is a conversations row.
C8_ReferentialIntegrity ==
    /\ \A r \in Ids(db.roles) : UserExists(db, db.roles[r].user_id)
    /\ \A c \in Ids(db.conversations) :
        /\ UserExists(db, db.conversations[c].user_id)
        /\ db.conversations[c].role_id # NULL => RoleExists(db, db.conversations[c].role_id)
    /\ \A m \in Ids(db.messages) : ConversationExists(db, db.messages[m].conversation_id)

\* a conversation with a role and with a message
C8_Witness ==
    \E c \in Ids(db.conversations) :
        /\ db.conversations[c].role_id # NULL
        /\ \E m \in Ids(db.messages) : db.messages[m].conversation_id = c

IdentifierArgs == {"user_id", "conversation_id", "role_id"}

RequiredStrings == {"username", "name", "role", "model", "action"}

InvalidArgs(a) ==
    \E f \in DOMAIN a :
        \/ f \in IdentifierArgs /\ ~(a[f].isint /\ a[f].v >= 1)
        \/ f \in RequiredStrings /\ (~a[f].isstr \/ \A n \in 1..Len(a[f].v) : a[f].v[n] = " ")

\* C10: a call with an invalid argument ends at once with the validation
\* error: no connection is opened, no transaction begun, the store is as it was.
C10_InvalidArgumentsFailBeforeAnyTransaction ==
    [][\A t \in Threads :
        (pc[t] = "idle" /\ pc'[t] # "idle" /\ InvalidArgs(args'[t]))
            => /\ pc'[t] = "done"
               /\ exc'[t] = ValueError
               /\ conn'[t] = "none"
               /\ ~yielded'[t]
               /\ <<db, work, holder>>' = <<db, work, holder>>]_vars

\* an add_message whose model is blank was refused
C10_Witness ==
    \E t \in Threads :
        /\ Finished(t, "add_message")
        /\ args[t].model = PyStr(Blank)
        /\ exc[t] = ValueError
        /\ conn[t] = "none"
        /\ holder = 0

\* C11: database_transaction makes at most max_retries = 3 acquisition
\* attempts (attempt is 0, 1, 2; one sleep before each new one); a lock error
\* on an earlier attempt leads to the next attempt, a lock error on the third
\* ends the call by raising it to the caller.
C11_ThreeAttemptsThenRaise ==
    /\ [](\A t \in Threads : attempt[t] \in 0..(max_retries - 1) /\ Len(slept[t]) = attempt[t])
    /\ [][\A t \in Threads :
            /\ (pc[t] = "enter" /\ pc'[t] # "enter") => pc'[t] = "begin"
            /\ (pc[t] = "except" /\ exc[t] = LockedError /\ pc'[t] # "except") =>
                    IF attempt[t] < max_retries - 1
                    THEN pc'[t] = "enter" /\ attempt'[t] = attempt[t] + 1
                    ELSE pc'[t] = "done" /\ exc'[t] = exc[t] /\ attempt'[t] = attempt[t]]_vars

\* three acquisitions have failed on the lock and the call has raised
C11_Witness ==
    \E t \in Threads :
        /\ pc[t] = "done"
        /\ exc[t] = LockedError
        /\ attempt[t] = max_retries - 1
        /\ ~yielded[t]

\* C12 as stated: a call that gave up on lock contention has slept 100ms,
\* 200ms and 400ms.
C12_SleepsThreeDelays ==
    \A t \in Threads :
        (pc[t] = "done" /\ exc[t] = LockedError)
            => slept[t] = <<InitialDelay, 2 * InitialDelay, 4 * InitialDelay>>

\* C12 as amended: a call that gave up on lock contention has slept twice,
\* 100ms then 200ms; every delay slept is 100ms doubled once per earlier
\* failed attempt, and nothing is slept after the third failed attempt (the
\* 400ms that retry_delay then holds is never slept).
C12_SleepsTwoDelays ==
    \A t \in Threads :
        /\ \A i \in DOMAIN slept[t] : slept[t][i] = InitialDelay * 2^(i - 1)
        /\ retry_delay[t] = InitialDelay * 2^Len(slept[t])
        /\ (pc[t] = "done" /\ exc[t] = LockedError) => slept[t] = <<InitialDelay, 2 * InitialDelay>>

\* a call gave up on the lock after its two sleeps
C12_Witness ==
    \E t \in Threads :
        /\ pc[t] = "done"
        /\ exc[t] = LockedError
        /\ slept[t] = <<100, 200>>
        /\ retry_delay[t] = 400

\* C13: a call whose last attempt failed on the lock raises the dedicated
\* max-retries failure, not the lock error.
C13_ExhaustionRaisesDedicatedFailure ==
    \A t \in Threads :
        (pc[t] = "done" /\ attempt[t] = max_retries - 1 /\ exc[t] \in {LockedError, MaxRetriesError})
            => exc[t] = MaxRetriesError

\* C14: only a lock error is followed by a sleep and a new attempt; any other
\* exception goes from the except clause to the caller, unchanged, with no
\* sleep, no new attempt and no new connection.
C14_OnlyLockFailuresAreRetried ==
    [][\A t \in Threads :
        /\ (pc[t] = "except" /\ pc'[t] = "enter") => exc[t] = LockedError
        /\ (slept'[t] # slept[t] /\ slept'[t] # <<>>) => (pc[t] = "except" /\ exc[t] = LockedError)
        /\ (pc[t] = "except" /\ exc[t] # LockedError /\ pc'[t] # "except") =>
                /\ pc'[t] = "done"
                /\ exc'[t] = exc[t]
                /\ slept'[t] = slept[t]
                /\ attempt'[t] = attempt[t]
                /\ conn'[t] = conn[t]]_vars

\* an operational error that is no lock error reached the caller after one attempt
C14_Witness ==
    \E t \in Threads :
        /\ pc[t] = "done"
        /\ exc[t] = SyntaxError
        /\ attempt[t] = 0
        /\ slept[t] = <<>>
        /\ conn[t] = "closed"

\* the exceptions a with block raises
BlockExceptions == {ValueError, SyntaxError, IOError, LockedError, NoIdError}

\* C15: a call whose block was entered ends with no transaction of its own
\* open, and with no exception or with the exception its block raised.
C15_CallerReceivesTheBlocksException ==
    \A t \in Threads :
        (pc[t] = "done" /\ yielded[t]) => (exc[t] \in BlockExceptions \cup {NoExc} /\ holder # t)

\* C16: when control is back with the caller, the connection of the call is
\* closed (or none was opened) and it holds no open transaction.
C16_NothingLeftOpen ==
    \A t \in Threads : pc[t] = "done" => (conn[t] # "open" /\ holder # t)

\* C17: no two threads are at once between opening their connection and the
\* end of BEGIN.
C17_ConnectAndBeginSerialized ==
    \A t, u \in Threads : (pc[t] = "begin" /\ pc[u] = "begin") => t = u

\* the threads that are between a successful BEGIN and their COMMIT or ROLLBACK
InTransactionThreads == {t \in Threads : pc[t] \in {"block", "commit", "rollback"}}

\* C18: at most one thread is between its successful BEGIN and its COMMIT or
\* ROLLBACK, it is the holder of the write lock, and the committed content
\* changes only by the holder's COMMIT, to the content that the holder built
\* on the committed content it began with.
C18_SingleWriter ==
    /\ [](/\ Cardinality(InTransactionThreads) <= 1
          /\ \A t \in InTransactionThreads : holder = t
          /\ holder = 0 => work = db)
    /\ [][/\ db' # db => (holder # 0 /\ pc[holder] = "commit" /\ db' = work)
          /\ \A t \in Threads : (pc[t] = "begin" /\ pc'[t] = "block") => (holder = 0 /\ work' = db)]_vars

\* one writer has written in its transaction while another call was refused the lock
C18_Witness ==
    \E t, u \in Threads :
        /\ pc[t] = "block"
        /\ work # db
        /\ pc[u] = "except"
        /\ exc[u] = LockedError

\* C19: a read operation that is acquiring its transaction meets no lock
\* error, whoever holds the write lock.
C19_ReadsNeverContend ==
    \A t \in Threads :
        (IsolationLevel(op[t]) = "READ_UNCOMMITTED" /\ ~yielded[t]) => exc[t] # LockedError

\* C20: a mutating operation that has returned normally has its row committed.
C20_NormalReturnMeansCommitted ==
    \A t \in Threads :
        (pc[t] = "done" /\ exc[t] = NoExc) =>
            /\ op[t] = "get_user_id" => UserExists(db, result[t][1])
            /\ op[t] = "create_role" => RoleExists(db, result[t][1])
            /\ op[t] = "create_conversation" => ConversationExists(db, result[t][1])
            /\ op[t] = "add_message" => result[t][1] \in Ids(db.messages)
            /\ op[t] = "create_conversation_with_message" =>
                    (ConversationExists(db, result[t][1]) /\ result[t][2] \in Ids(db.messages))
            /\ op[t] = "log_action" => result[t][1] \in Ids(db.logs)

\* the messages of conversation c in the order of their insertion, as the
\* rows that get_messages_by_conversation returns
MessagesOf(d, c) ==
    LET OfConversation(m) == m.conversation_id = c
        rows == SelectSeq(d.messages, OfConversation)
    IN  [n \in DOMAIN rows |-> [role |-> rows[n].role, content |-> rows[n].content, model |-> rows[n].model, timestamp |-> rows[n].timestamp]]

StrictlyIncreasing(rows) == \A i, j \in DOMAIN rows : i < j => rows[i].timestamp < rows[j].timestamp

\* C21: what get_messages_by_conversation returns has one row for each
\* message of the conversation and for no other, in ascending timestamp; when
\* the messages were inserted with strictly increasing timestamps it is the
\* sequence of the messages in insertion order.
C21_MessagesInInsertionOrder ==
    \A t \in Threads :
        (pc[t] = "commit" /\ op[t] = "get_messages_by_conversation") =>
            LET rows == MessagesOf(db, args[t].conversation_id.v)
            IN  /\ Len(result[t]) = Len(rows)
                /\ \A n \in DOMAIN rows : \E i \in DOMAIN result[t] : result[t][i] = rows[n]
                /\ \A i, j \in DOMAIN result[t] : i < j => result[t][i].timestamp <= result[t][j].timestamp
                /\ StrictlyIncreasing(rows) => result[t] = rows

\* two messages of the conversation, and one of another, have been read
C21_Witness ==
    \E t \in Threads :
        /\ pc[t] = "commit"
        /\ op[t] = "get_messages_by_conversation"
        /\ Len(result[t]) = 2
        /\ result[t][1].timestamp < result[t][2].timestamp
        /\ Len(db.messages) > 2

ScenarioAlice == <<"a", "l", "i", "c", "e">>

ScenarioPirate == <<"P", "i", "r", "a", "t", "e">>

ScenarioDescription == <<"T", "a", "l", "k", " ", "l", "i", "k", "e", " ", "a", " ", "p", "i", "r", "a", "t", "e", ".">>

ScenarioUser == <<"u", "s", "e", "r">>

ScenarioUserInput == <<"u", "s", "e", "r", "_", "i", "n", "p", "u", "t">>

ScenarioAssistant == <<"a", "s", "s", "i", "s", "t", "a", "n", "t">>

ScenarioArr == <<"A", "r", "r", ",", " ", "h", "e", "l", "l", "o", "!">>

ScenarioChimera == <<"d", "e", "e", "p", "s", "e", "e", "k", "c", "h", "i", "m", "e", "r", "a">>

ScenarioCalls == <<
    [op |-> "get_user_id", args |-> [username |-> PyStr(ScenarioAlice)]],
    [op |-> "create_role", args |-> [user_id |-> PyInt(1), name |-> PyStr(ScenarioPirate), description |-> PyStr(ScenarioDescription)]],
    [op |-> "create_conversation", args |-> [user_id |-> PyInt(1)]],
    [op |-> "assign_role_to_conversation", args |-> [conversation_id |-> PyInt(1), role_id |-> PyInt(1)]],
    [op |-> "add_message", args |-> [conversation_id |-> PyInt(1), role |-> PyStr(ScenarioUser), content |-> PyStr(Ahoy), model |-> PyStr(ScenarioUserInput)]],
    [op |-> "add_message", args |-> [conversation_id |-> PyInt(1), role |-> PyStr(ScenarioAssistant), content |-> PyStr(ScenarioArr), model |-> PyStr(ScenarioChimera)]] >>

\* the store after the first n calls of the scenario, on an engine whose FOR UPDATE is fu
RECURSIVE ScenarioStore(_, _)
ScenarioStore(n, fu) == IF n = 0 THEN EmptyDB ELSE RunCall(ScenarioCalls[n], ScenarioStore(n - 1, fu), n, fu)

\* how the n-th call of the scenario ends: what it returns, the exception it raises
ScenarioResult(n, fu) == RunBlock(ScenarioCalls[n], 1, <<>>, ScenarioStore(n - 1, fu), n, fu)

ScenarioReturns(n, fu, v) == ScenarioResult(n, fu).ctl = "return" /\ ScenarioResult(n, fu).val = v

\* what get_messages_by_conversation(1) can return after the scenario
ScenarioMessages(fu) ==
    {[n \in DOMAIN o.val |-> <<o.val[n].role, o.val[n].content, o.val[n].model>>] :
        o \in get_messages_by_conversation_block(1, [conversation_id |-> PyInt(1)], <<>>, ScenarioStore(Len(ScenarioCalls), fu), 0, 0, fu)}

\* C23: on the engine of this store, the calls of the scenario return 1, 1, 1,
\* nothing, 1, 2 and get_messages_by_conversation(1) then returns the user
\* message followed by the assistant message.
C23_ConcreteScenario ==
    /\ \A n \in DOMAIN ScenarioCalls :
        ScenarioReturns(n, for_update, << <<1>>, <<1>>, <<1>>, <<>>, <<1>>, <<2>> >>[n])
    /\ ScenarioMessages(for_update) = {<< <<ScenarioUser, Ahoy, ScenarioUserInput>>, <<ScenarioAssistant, ScenarioArr, ScenarioChimera>> >>}

\* C24: no step of a call of initialize_database changes the committed schema
\* or any committed row, and the call ends without error unless the engine
\* fails (the lock, the disk).
C24_InitializeIsIdempotent ==
    /\ [](\A t \in Threads : (pc[t] = "done" /\ op[t] = "initialize_database") => exc[t] \in {NoExc} \cup EngineFailures)
    /\ [][\A t \in Threads : (op[t] = "initialize_database" /\ OwnStep(t)) => db' = db]_vars

\* a second call of initialize_database has returned on a store that has rows
C24_Witness ==
    \E t \in Threads :
        /\ pc[t] = "done"
        /\ op[t] = "initialize_database"
        /\ exc[t] = NoExc
        /\ calls = 2
        /\ db.logs # <<>>
        /\ db.schema = Tables \cup Indexes

\* C25: a log row written through the cursor of another operation appears
\* in the committed store only in the step that commits that operation, and
\* log_action called without a cursor has its row committed when it returns.
C25_LogRowCommittedWithItsTransaction ==
    /\ [](\A t \in Threads :
            (Finished(t, "log_action") /\ exc[t] = NoExc) =>
                /\ result[t][1] \in Ids(db.logs)
                /\ db.logs[result[t][1]].action = Strip(args[t].action.v))
    /\ [][\A t \in Threads :
            (op[t] # "log_action" /\ OwnStep(t) /\ db'.logs # db.logs) => Commits(t)]_vars

\* the operations that read or write the five tables
DataOps == {"get_user_id", "create_role", "assign_role_to_conversation", "create_conversation", "add_message", "create_conversation_with_message", "log_action", "get_roles_by_user", "get_role_by_id", "get_conversations_by_user", "get_messages_by_conversation"}

\* C26: a data-access operation that is handed the caller's cursor accepts
\* it: the call is never refused for the argument itself.
C26_EveryOperationAcceptsACursor ==
    \A t \in Threads :
        (pc[t] = "done" /\ op[t] \in DataOps /\ "cursor" \in DOMAIN args[t]) => exc[t] # TypeError

\* what the finished call of t returned is in the committed store
ResultCommitted(t) ==
    CASE op[t] = "get_user_id" -> UserExists(db, result[t][1])
      [] op[t] = "create_conversation" -> ConversationExists(db, result[t][1])
      [] op[t] = "add_message" -> result[t][1] \in Ids(db.messages)
      [] op[t] = "create_conversation_with_message" -> ConversationExists(db, result[t][1]) /\ result[t][2] \in Ids(db.messages)
      [] OTHER -> TRUE

LoggedMutations == {"get_user_id", "create_conversation", "add_message", "create_conversation_with_message"}

\* C27: a logged mutation whose transaction was acquired after one or two
\* lock failures, and which met no further engine failure and no rejection
\* of its arguments, returns without error with its rows committed.
C27_RetriedAcquisitionCompletesNormally ==
    \A t \in Threads :
        (/\ pc[t] = "done"
         /\ op[t] \in LoggedMutations
         /\ attempt[t] >= 1
         /\ yielded[t]
         /\ exc[t] \notin {ValueError} \cup EngineFailures)
            => (exc[t] = NoExc /\ ResultCommitted(t))

IsPrefix(s, r) == Len(s) <= Len(r) /\ SubSeq(r, 1, Len(s)) = s

\* C28: no step deletes or changes a committed users, roles, messages or
\* logs row, and no step deletes a committed conversations row or changes
\* more than its role_id.
C28_AppendOnlyButRoleAssignment ==
    [][/\ IsPrefix(db.users, db'.users)
       /\ IsPrefix(db.roles, db'.roles)
       /\ IsPrefix(db.messages, db'.messages)
       /\ IsPrefix(db.logs, db'.logs)
       /\ Len(db.conversations) <= Len(db'.conversations)
       /\ \A i \in Ids(db.conversations) :
            [db'.conversations[i] EXCEPT !.role_id = db.conversations[i].role_id] = db.conversations[i]]_vars

\* a role assignment has been committed on a store that has messages
C28_Witness ==
    \E t \in Threads :
        /\ Finished(t, "assign_role_to_conversation")
        /\ exc[t] = NoExc
        /\ db.messages # <<>>
        /\ db.conversations[args[t].conversation_id.v].role_id = args[t].role_id.v
        /\ db.conversations[args[t].conversation_id.v].start_time # 0

PastCheck(t) ==
    /\ op[t] \in {"create_role", "create_conversation", "add_message", "assign_role_to_conversation", "create_conversation_with_message"}
    /\ (pc[t] = "block" /\ stmt[t] >= 2) \/ pc[t] = "commit"

\* the committed row that the operation of t has checked
Referenced(t, d) ==
    IF "user_id" \in DOMAIN args[t]
    THEN IF UserExists(d, args[t].user_id.v) THEN <<d.users[args[t].user_id.v]>> ELSE <<>>
    ELSE IF ConversationExists(d, args[t].conversation_id.v) THEN <<d.conversations[args[t].conversation_id.v]>> ELSE <<>>

\* C30: from the existence check of a write operation to its commit, the
\* checked row is in the committed store, and no step changes it.
C30_CheckedRowStaysUntilCommit ==
    /\ [](\A t \in Threads : PastCheck(t) => Referenced(t, db) # <<>>)
    /\ [][\A t \in Threads :
            (PastCheck(t) /\ PastCheck(t)') => Referenced(t, db') = Referenced(t, db)]_vars

\* an operation is past its check while another, which would change the
\* checked row, waits for the transaction
C30_Witness ==
    \E t, u \in Threads :
        /\ PastCheck(t)
        /\ op[t] = "add_message"
        /\ op[u] = "assign_role_to_conversation"
        /\ pc[u] = "except"
        /\ exc[u] = LockedError
        /\ args[u].conversation_id = args[t].conversation_id

Spellings == {Alice, AliceSpaced, <<" ", "a">>, <<"a", " ">>, Bob, <<"b", " ">>}

\* the identifier and the users table that get_user_id(name) leaves on store d,
\* nothing when it raises
Resolve(d, name, fu) ==
    LET o == RunBlock([op |-> "get_user_id", args |-> [username |-> PyStr(name)]], 1, <<>>, d, 0, fu)
    IN  IF o.ctl = "return" THEN <<o.val, o.w.users>> ELSE <<>>

====
